---- MODULE Spec2Model ----
(***************************************************************************)
(* Model of ocr-service/main.py: the FastAPI OCR service.                  *)
(*                                                                         *)
(*   Spec     the server: module import, the /ocr coroutine on the single  *)
(*            event loop, the /health and /test probes                     *)
(*   SpecAgg  the aggregation loop of extract_text (filter, round, join)   *)
(*   SpecPre  preprocess_image at the level of image dimensions            *)
(*   SpecBin  the cv2.threshold step at the level of pixels                *)
(*                                                                         *)
(* Units.  A confidence is a real in [0,1]; it is held as an integer       *)
(* number of ten-thousandths (0.3 is 3000).  A rounded confidence is an    *)
(* integer number of thousandths (0.3 is 300).                             *)
(***************************************************************************)
EXTENDS Integers, Sequences, FiniteSets, TLC

VARIABLES
    \* ---- server ----
    reader,        \* module global `reader`: 0 = unbound, n = the n-th Reader built
    readerInits,   \* number of easyocr.Reader(...) constructions so far
    serving,       \* uvicorn.run has been reached
    pc,            \* position of each /ocr coroutine
    contents,      \* the upload of each request
    io,            \* state of the awaited file.read() of each request
    running,       \* coroutines currently executing handler code
    stages,        \* pipeline stages each request has completed
    raised,        \* message of the exception raised in each request ("" = none)
    responses,     \* responses each request has returned
    calls,         \* reader.readtext calls made by each request
    usedReader,    \* the reader instance each request called readtext on
    probes,        \* number of /health and /test requests answered
    lastProbe,     \* body of the last probe answer
    \* ---- aggregation ----
    results,       \* what reader.readtext returned
    idx,           \* position of the for loop in results
    extracted,     \* the list `extracted`
    full_text,     \* the string `full_text`
    response,      \* the success response body
    aggPc,
    \* ---- preprocess_image, dimensions ----
    input,         \* the decoded image handed to preprocess_image
    image,         \* the image / array as the pipeline transforms it
    prePc,
    \* ---- binarization, pixels ----
    gray,          \* pixels of the grayscale array
    binary,        \* result of cv2.threshold on gray
    binary2,       \* result of cv2.threshold on binary
    binPc

srvVars == <<reader, readerInits, serving, pc, contents, io, running, stages,
             raised, responses, calls, usedReader, probes, lastProbe>>
aggVars == <<results, idx, extracted, full_text, response, aggPc>>
preVars == <<input, image, prePc>>
binVars == <<gray, binary, binary2, binPc>>
vars == <<srvVars, aggVars, preVars, binVars>>

\* ---- bounds of the model ----
NumReqs == 2
MaxProbes == 2
MaxResults == 2
MaxHeight == 4
NumPixels == 3

\* ---- program constants ----
max_width == 2000
BinThresh == 150
BinMaxVal == 255
ConfThreshold == 3000

(***************************************************************************)
(* Idle values: what a specification holds the other parts' variables at.  *)
(***************************************************************************)
SrvIdle ==
    /\ reader = 0 /\ readerInits = 0 /\ serving = FALSE
    /\ pc = <<>> /\ contents = <<>> /\ io = <<>> /\ running = {}
    /\ stages = <<>> /\ raised = <<>> /\ responses = <<>>
    /\ calls = <<>> /\ usedReader = <<>> /\ probes = 0 /\ lastProbe = <<>>

AggIdle ==
    /\ results = <<>> /\ idx = 0 /\ extracted = <<>> /\ full_text = <<>>
    /\ response = <<>> /\ aggPc = "off"

PreIdle == input = <<>> /\ image = <<>> /\ prePc = "off"

BinIdle == gray = <<>> /\ binary = <<>> /\ binary2 = <<>> /\ binPc = "off"

(***************************************************************************)
(* The server.                                                             *)
(***************************************************************************)
Reqs == 1..NumReqs
Uploads == {"empty", "image", "garbage"}
PipelineStages == {"decode", "preprocess", "recognize", "aggregate"}

\* str(e) of the exception each step raises.
ExcMessage(stage) ==
    CASE stage = "read" -> "read failed"
      [] stage = "decode" -> "cannot identify image file"
      [] stage = "preprocess" -> "height and width must be > 0"
      [] stage = "recognize" -> "recognition failed"
      [] stage = "aggregate" -> "not JSON serializable"

EmptyResponse == [status |-> 400, success |-> FALSE, error |-> "Empty file"]
ErrorResponse(msg) == [status |-> 500, success |-> FALSE, error |-> msg]
SuccessResponse == [status |-> 200, success |-> TRUE, error |-> ""]

\* The statements that the try block encloses.
InTryNoDecode(stage) == stage \in {"read", "check", "recognize", "aggregate"}
InTry(stage) ==
    stage \in {"read", "check", "decode", "preprocess", "recognize", "aggregate"}

\* The handler is a coroutine of the one event loop: it starts or resumes only
\* when no other coroutine is executing.
CanRunThreaded(r) == TRUE
CanRun(r) == running = {}

SrvInit ==
    /\ reader = 0
    /\ readerInits = 0
    /\ serving = FALSE
    /\ pc = [r \in Reqs |-> "new"]
    /\ contents = [r \in Reqs |-> "image"]
    /\ io = [r \in Reqs |-> "none"]
    /\ running = {}
    /\ stages = [r \in Reqs |-> {}]
    /\ raised = [r \in Reqs |-> ""]
    /\ responses = [r \in Reqs |-> <<>>]
    /\ calls = [r \in Reqs |-> 0]
    /\ usedReader = [r \in Reqs |-> 0]
    /\ probes = 0
    /\ lastProbe = [status |-> "none"]

\* Module import builds the reader, then __main__ starts uvicorn.
Startup ==
    /\ ~serving
    /\ reader' = readerInits + 1
    /\ readerInits' = readerInits + 1
    /\ serving' = TRUE
    /\ UNCHANGED <<pc, contents, io, running, stages, raised, responses, calls,
                   usedReader, probes, lastProbe>>

\* An exception raised by request r at `stage`: caught by `except Exception`
\* when the stage is inside the try block, else it leaves the handler.
Raise(r, stage) ==
    /\ raised' = [raised EXCEPT ![r] = ExcMessage(stage)]
    /\ running' = running \ {r}
    /\ IF InTry(stage)
         THEN /\ pc' = [pc EXCEPT ![r] = "done"]
              /\ responses' = [responses EXCEPT
                                 ![r] = Append(@, ErrorResponse(ExcMessage(stage)))]
         ELSE /\ pc' = [pc EXCEPT ![r] = "crashed"]
              /\ UNCHANGED responses

\* The handler starts and file.read() returns without suspending
\* (an upload held in memory).
BeginInline(r) ==
    /\ serving /\ pc[r] = "new" /\ CanRun(r)
    /\ \E c \in Uploads : contents' = [contents EXCEPT ![r] = c]
    /\ pc' = [pc EXCEPT ![r] = "check"]
    /\ running' = running \cup {r}
    /\ UNCHANGED <<reader, readerInits, serving, io, stages, raised, responses,
                   calls, usedReader, probes, lastProbe>>

\* The handler starts and suspends at `await file.read()`.
BeginSuspend(r) ==
    /\ serving /\ pc[r] = "new" /\ CanRun(r)
    /\ \E c \in Uploads : contents' = [contents EXCEPT ![r] = c]
    /\ pc' = [pc EXCEPT ![r] = "await_read"]
    /\ io' = [io EXCEPT ![r] = "pending"]
    /\ UNCHANGED <<reader, readerInits, serving, running, stages, raised,
                   responses, calls, usedReader, probes, lastProbe>>

\* The awaited read finishes (outside the event loop), well or badly.
ReadComplete(r) ==
    /\ pc[r] = "await_read" /\ io[r] = "pending"
    /\ \E res \in {"ok", "error"} : io' = [io EXCEPT ![r] = res]
    /\ UNCHANGED <<reader, readerInits, serving, pc, contents, running, stages,
                   raised, responses, calls, usedReader, probes, lastProbe>>

\* The event loop resumes the coroutine after the await.
Resume(r) ==
    /\ pc[r] = "await_read" /\ io[r] \in {"ok", "error"} /\ CanRun(r)
    /\ IF io[r] = "ok"
         THEN /\ pc' = [pc EXCEPT ![r] = "check"]
              /\ running' = running \cup {r}
              /\ UNCHANGED <<raised, responses>>
         ELSE Raise(r, "read")
    /\ UNCHANGED <<reader, readerInits, serving, contents, io, stages, calls,
                   usedReader, probes, lastProbe>>

\* if not contents: return 400
CheckEmpty(r) ==
    /\ r \in running /\ pc[r] = "check"
    /\ IF contents[r] = "empty"
         THEN /\ pc' = [pc EXCEPT ![r] = "done"]
              /\ responses' = [responses EXCEPT ![r] = Append(@, EmptyResponse)]
              /\ running' = running \ {r}
         ELSE /\ pc' = [pc EXCEPT ![r] = "decode"]
              /\ UNCHANGED <<responses, running>>
    /\ UNCHANGED <<reader, readerInits, serving, contents, io, stages, raised,
                   calls, usedReader, probes, lastProbe>>

\* image = Image.open(io.BytesIO(contents))
Decode(r) ==
    /\ r \in running /\ pc[r] = "decode"
    /\ IF contents[r] = "garbage"
         THEN Raise(r, "decode") /\ UNCHANGED stages
         ELSE /\ pc' = [pc EXCEPT ![r] = "preprocess"]
              /\ stages' = [stages EXCEPT ![r] = @ \cup {"decode"}]
              /\ UNCHANGED <<raised, responses, running>>
    /\ UNCHANGED <<reader, readerInits, serving, contents, io, calls, usedReader,
                   probes, lastProbe>>

\* processed = preprocess_image(image)
Preprocess(r) ==
    /\ r \in running /\ pc[r] = "preprocess"
    /\ \E ok \in BOOLEAN :
         IF ok
           THEN /\ pc' = [pc EXCEPT ![r] = "recognize"]
                /\ stages' = [stages EXCEPT ![r] = @ \cup {"preprocess"}]
                /\ UNCHANGED <<raised, responses, running>>
           ELSE Raise(r, "preprocess") /\ UNCHANGED stages
    /\ UNCHANGED <<reader, readerInits, serving, contents, io, calls, usedReader,
                   probes, lastProbe>>

\* A handler that builds a Reader for every call.
RecognizeReinit(r) ==
    /\ r \in running /\ pc[r] = "recognize"
    /\ reader' = readerInits + 1
    /\ readerInits' = readerInits + 1
    /\ calls' = [calls EXCEPT ![r] = @ + 1]
    /\ usedReader' = [usedReader EXCEPT ![r] = reader']
    /\ \E ok \in BOOLEAN :
         IF ok
           THEN /\ pc' = [pc EXCEPT ![r] = "aggregate"]
                /\ stages' = [stages EXCEPT ![r] = @ \cup {"recognize"}]
                /\ UNCHANGED <<raised, responses, running>>
           ELSE Raise(r, "recognize") /\ UNCHANGED stages
    /\ UNCHANGED <<serving, contents, io, probes, lastProbe>>

\* results = reader.readtext(processed)
Recognize(r) ==
    /\ r \in running /\ pc[r] = "recognize"
    /\ calls' = [calls EXCEPT ![r] = @ + 1]
    /\ usedReader' = [usedReader EXCEPT ![r] = reader]
    /\ \E ok \in BOOLEAN :
         IF ok
           THEN /\ pc' = [pc EXCEPT ![r] = "aggregate"]
                /\ stages' = [stages EXCEPT ![r] = @ \cup {"recognize"}]
                /\ UNCHANGED <<raised, responses, running>>
           ELSE Raise(r, "recognize") /\ UNCHANGED stages
    /\ UNCHANGED <<reader, readerInits, serving, contents, io, probes, lastProbe>>

\* the loop over results, the join and the JSONResponse
Aggregate(r) ==
    /\ r \in running /\ pc[r] = "aggregate"
    /\ \E ok \in BOOLEAN :
         IF ok
           THEN /\ pc' = [pc EXCEPT ![r] = "done"]
                /\ stages' = [stages EXCEPT ![r] = @ \cup {"aggregate"}]
                /\ responses' = [responses EXCEPT ![r] = Append(@, SuccessResponse)]
                /\ running' = running \ {r}
                /\ UNCHANGED raised
           ELSE Raise(r, "aggregate") /\ UNCHANGED stages
    /\ UNCHANGED <<reader, readerInits, serving, contents, io, calls, usedReader,
                   probes, lastProbe>>

\* GET /health (a plain def: answered from the thread pool at any time)
Health ==
    /\ serving /\ probes < MaxProbes
    /\ probes' = probes + 1
    /\ lastProbe' = [status |-> "ok"]
    /\ UNCHANGED <<reader, readerInits, serving, pc, contents, io, running,
                   stages, raised, responses, calls, usedReader>>

\* GET /test
Test ==
    /\ serving /\ probes < MaxProbes
    /\ probes' = probes + 1
    /\ lastProbe' = [status |-> "ok", reader_ready |-> (reader # 0)]
    /\ UNCHANGED <<reader, readerInits, serving, pc, contents, io, running,
                   stages, raised, responses, calls, usedReader>>

SrvOnly == UNCHANGED <<aggVars, preVars, binVars>>

Init == SrvInit /\ AggIdle /\ PreIdle /\ BinIdle

Next ==
    \/ Startup /\ SrvOnly
    \/ (\E r \in Reqs : BeginInline(r)) /\ SrvOnly
    \/ (\E r \in Reqs : BeginSuspend(r)) /\ SrvOnly
    \/ (\E r \in Reqs : ReadComplete(r)) /\ SrvOnly
    \/ (\E r \in Reqs : Resume(r)) /\ SrvOnly
    \/ (\E r \in Reqs : CheckEmpty(r)) /\ SrvOnly
    \/ (\E r \in Reqs : Decode(r)) /\ SrvOnly
    \/ (\E r \in Reqs : Preprocess(r)) /\ SrvOnly
    \/ (\E r \in Reqs : Recognize(r)) /\ SrvOnly
    \/ (\E r \in Reqs : Aggregate(r)) /\ SrvOnly
    \/ Health /\ SrvOnly
    \/ Test /\ SrvOnly

Spec == Init /\ [][Next]_vars

(***************************************************************************)
(* The aggregation loop of extract_text.                                   *)
(***************************************************************************)
\* A text is a sequence of characters.
Texts == {<<>>, <<"H">>, <<"w", "o">>}

\* Confidences of the model, in ten-thousandths: the threshold 0.3, its
\* neighbours, the decimal ties 0.2995, 0.3005 and 0.8675, the binary tie
\* 0.3125 and the ends of [0,1].
Confidences == {0, 2995, 3000, 3001, 3005, 3006, 3125, 8675, 10000}

RecognitionResults == [text : Texts, confidence : Confidences]

RECURSIVE SeqsUpTo(_, _)
SeqsUpTo(S, n) ==
    IF n = 0 THEN {<<>>}
    ELSE LET shorter == SeqsUpTo(S, n - 1)
         IN shorter \cup {Append(q, x) : q \in {t \in shorter : Len(t) = n - 1}, x \in S}

\* if confidence > 0.3
KeepsInclusive(c) == c >= ConfThreshold
Keeps(c) == c > ConfThreshold

\* The decimal ties of Confidences whose double lies above the decimal
\* (0.8675 is 0.86750000000000004884...; 0.2995 and 0.3005 lie below).
DoubleAboveDecimal == {8675}
\* The decimal ties of Confidences that are exact in binary (0.3125 = 5/16).
ExactTies == {3125}

\* round(confidence) with the digits left out: 0 or 1.
RoundNoDigits(c) == IF c > 5000 THEN 1000 ELSE 0
\* round(confidence, 3): the double is rounded correctly to thousandths, an
\* exact tie to the even neighbour.  Result in thousandths.
Round3(c) ==
    LET q == c \div 10
        rem == c % 10
    IN  IF rem < 5 THEN q
        ELSE IF rem > 5 THEN q + 1
        ELSE IF c \in ExactTies THEN (IF q % 2 = 0 THEN q ELSE q + 1)
        ELSE IF c \in DoubleAboveDecimal THEN q + 1
        ELSE q

\* ' '.join over non-empty texts only.
RECURSIVE JoinSkipEmpty(_)
JoinSkipEmpty(ts) ==
    LET ne == SelectSeq(ts, LAMBDA t : t # <<>>)
    IN  IF ne = <<>> THEN <<>>
        ELSE IF Len(ne) = 1 THEN ne[1]
        ELSE ne[1] \o <<" ">> \o JoinSkipEmpty(Tail(ne))
\* ' '.join(ts)
RECURSIVE Join(_)
Join(ts) ==
    IF ts = <<>> THEN <<>>
    ELSE IF Len(ts) = 1 THEN ts[1]
    ELSE ts[1] \o <<" ">> \o Join(Tail(ts))

AggInit ==
    /\ results \in SeqsUpTo(RecognitionResults, MaxResults)
    /\ idx = 1
    /\ extracted = <<>>
    /\ full_text = <<>>
    /\ response = [success |-> FALSE]
    /\ aggPc = "loop"

\* one iteration of the for loop whose result passes the test
LoopKeep ==
    /\ aggPc = "loop" /\ idx <= Len(results)
    /\ Keeps(results[idx].confidence)
    /\ extracted' = Append(extracted,
                           [text |-> results[idx].text,
                            confidence |-> Round3(results[idx].confidence)])
    /\ idx' = idx + 1
    /\ UNCHANGED <<results, full_text, response, aggPc>>

\* one iteration of the for loop whose result fails the test
LoopSkip ==
    /\ aggPc = "loop" /\ idx <= Len(results)
    /\ ~Keeps(results[idx].confidence)
    /\ idx' = idx + 1
    /\ UNCHANGED <<results, extracted, full_text, response, aggPc>>

\* full_text = ' '.join([e['text'] for e in extracted])
JoinTexts ==
    /\ aggPc = "loop" /\ idx > Len(results)
    /\ full_text' = Join([i \in 1..Len(extracted) |-> extracted[i].text])
    /\ aggPc' = "respond"
    /\ UNCHANGED <<results, idx, extracted, response>>

\* return JSONResponse({...})
Respond ==
    /\ aggPc = "respond"
    /\ response' = [success |-> TRUE, text |-> full_text, words |-> extracted,
                    word_count |-> Len(extracted)]
    /\ aggPc' = "done"
    /\ UNCHANGED <<results, idx, extracted, full_text>>

AggOnly == UNCHANGED <<srvVars, preVars, binVars>>

InitAgg == SrvIdle /\ AggInit /\ PreIdle /\ BinIdle

NextAgg ==
    \/ LoopKeep /\ AggOnly
    \/ LoopSkip /\ AggOnly
    \/ JoinTexts /\ AggOnly
    \/ Respond /\ AggOnly

SpecAgg == InitAgg /\ [][NextAgg]_vars

(***************************************************************************)
(* preprocess_image, at the level of the image's dimensions.               *)
(***************************************************************************)
Modes == {"RGB", "L", "RGBA"}
Widths == {1, max_width - 1, max_width, max_width + 1, 2124, 3000, 4000, 8000}
\* 531 x 2124 is a pair at which the double product falls short (see NewHeight).
Heights == (1..MaxHeight) \cup {531}

\* if image.width > max_width
NeedsResizeInverted(w) == w < max_width
NeedsResize(w) == w > max_width

\* The pairs of Widths x Heights at which h * (max_width / w), computed in
\* doubles, lies just below the exact integer quotient
\* (531 * (2000 / 2124) = 499.99999999999994).
DoubleShort(w, h) == <<w, h>> \in {<<2124, 531>>}

\* ratio = max_width / image.width; new_height = int(image.height * ratio)
\* int() truncates toward zero.
NewHeight(w, h) ==
    LET exact == (h * max_width) \div w
    IN  IF DoubleShort(w, h) THEN exact - 1 ELSE exact

PreInit ==
    /\ input \in [width : Widths, height : Heights, mode : Modes]
    /\ image = [width |-> input.width, height |-> input.height,
                mode |-> input.mode, channels |-> 0]
    /\ prePc = "convert"

\* if image.mode != 'RGB': image = image.convert('RGB')
ConvertRGB ==
    /\ prePc = "convert" /\ image.mode # "RGB"
    /\ image' = [image EXCEPT !.mode = "RGB"]
    /\ prePc' = "resize"
    /\ UNCHANGED input

KeepRGB ==
    /\ prePc = "convert" /\ image.mode = "RGB"
    /\ prePc' = "resize"
    /\ UNCHANGED <<input, image>>

\* image = image.resize((max_width, new_height), Image.LANCZOS);
\* Pillow refuses a size below 1 with ValueError.
Resize ==
    /\ prePc = "resize" /\ NeedsResize(image.width)
    /\ LET new_height == NewHeight(image.width, image.height)
       IN  IF new_height < 1
             THEN prePc' = "failed" /\ UNCHANGED image
             ELSE /\ image' = [image EXCEPT !.width = max_width,
                                            !.height = new_height]
                  /\ prePc' = "contrast"
    /\ UNCHANGED input

NoResize ==
    /\ prePc = "resize" /\ ~NeedsResize(image.width)
    /\ prePc' = "contrast"
    /\ UNCHANGED <<input, image>>

\* ImageEnhance.Contrast(image).enhance(1.8): same size, same mode
Contrast ==
    /\ prePc = "contrast"
    /\ prePc' = "gray"
    /\ UNCHANGED <<input, image>>

\* img_np = np.array(image); gray = cv2.cvtColor(img_np, cv2.COLOR_RGB2GRAY)
\* an array of image.height rows and image.width columns, one channel
ToGray ==
    /\ prePc = "gray"
    /\ image' = [image EXCEPT !.mode = "ndarray", !.channels = 1]
    /\ prePc' = "threshold"
    /\ UNCHANGED input

\* _, binary = cv2.threshold(gray, 150, 255, cv2.THRESH_BINARY): same shape
ThresholdShape ==
    /\ prePc = "threshold"
    /\ prePc' = "rgb"
    /\ UNCHANGED <<input, image>>

\* rgb = cv2.cvtColor(binary, cv2.COLOR_GRAY2RGB)
ToRGB ==
    /\ prePc = "rgb"
    /\ image' = [image EXCEPT !.channels = 3]
    /\ prePc' = "done"
    /\ UNCHANGED input

PreOnly == UNCHANGED <<srvVars, aggVars, binVars>>

InitPre == SrvIdle /\ AggIdle /\ PreInit /\ BinIdle

NextPre ==
    \/ ConvertRGB /\ PreOnly
    \/ KeepRGB /\ PreOnly
    \/ Resize /\ PreOnly
    \/ NoResize /\ PreOnly
    \/ Contrast /\ PreOnly
    \/ ToGray /\ PreOnly
    \/ ThresholdShape /\ PreOnly
    \/ ToRGB /\ PreOnly

SpecPre == InitPre /\ [][NextPre]_vars

(***************************************************************************)
(* The binarization step, at the level of pixels.                          *)
(***************************************************************************)
PixelValues == {0, BinThresh - 1, BinThresh, BinThresh + 1, BinMaxVal}
Pixels == 1..NumPixels

\* cv2.THRESH_BINARY_INV in place of cv2.THRESH_BINARY
ThresholdBinaryInv(p) == IF p > BinThresh THEN 0 ELSE BinMaxVal
\* a threshold that takes the pixels equal to thresh as well
ThresholdInclusive(p) == IF p >= BinThresh THEN BinMaxVal ELSE 0
\* cv2.threshold(src, 150, 255, cv2.THRESH_BINARY), one pixel:
\* dst = maxval if src > thresh else 0
ThresholdBinary(p) == IF p > BinThresh THEN BinMaxVal ELSE 0

BinInit ==
    /\ gray \in [Pixels -> PixelValues]
    /\ binary = <<>>
    /\ binary2 = <<>>
    /\ binPc = "gray"

\* the binarization of preprocess_image
Binarize ==
    /\ binPc = "gray"
    /\ binary' = [i \in Pixels |-> ThresholdBinary(gray[i])]
    /\ binPc' = "binary"
    /\ UNCHANGED <<gray, binary2>>

\* the same step applied to its own output
Rebinarize ==
    /\ binPc = "binary"
    /\ binary2' = [i \in Pixels |-> ThresholdBinary(binary[i])]
    /\ binPc' = "again"
    /\ UNCHANGED <<gray, binary>>

BinOnly == UNCHANGED <<srvVars, aggVars, preVars>>

InitBin == SrvIdle /\ AggIdle /\ PreIdle /\ BinInit

NextBin ==
    \/ Binarize /\ BinOnly
    \/ Rebinarize /\ BinOnly

SpecBin == InitBin /\ [][NextBin]_vars

(***************************************************************************)
(* Properties.                                                             *)
(***************************************************************************)

\* ---------------------------------------------------------------- SpecAgg

\* C1, as stated: in the success response word_count = len(words), and every
\* reported (rounded) confidence is strictly greater than the threshold 0.3.
C1_ReportedAboveThreshold ==
    aggPc = "done" =>
        /\ response.word_count = Len(response.words)
        /\ \A i \in 1..Len(response.words) :
               response.words[i].confidence * 10 > ConfThreshold

\* C1, amended: in the success response word_count = len(words), and every
\* reported (rounded) confidence is greater than or equal to the threshold
\* 0.3: a raw confidence just above 0.3 is kept and rounds to 0.3 itself.
C1_ReportedAtLeastThreshold ==
    aggPc = "done" =>
        /\ response.word_count = Len(response.words)
        /\ \A i \in 1..Len(response.words) :
               response.words[i].confidence * 10 >= ConfThreshold

\* A response with two words, one reported at exactly 0.3 and one above it.
C1_Witness ==
    /\ aggPc = "done"
    /\ response.word_count = 2
    /\ \E i, j \in 1..Len(response.words) :
           /\ response.words[i].confidence * 10 = ConfThreshold
           /\ response.words[j].confidence * 10 > ConfThreshold

\* The texts of the results whose raw confidence is above 0.3, in input order.
C2_ExpectedTexts ==
    LET kept == SelectSeq(results, LAMBDA x : x.confidence > ConfThreshold)
    IN  [i \in 1..Len(kept) |-> kept[i].text]

\* C2: the texts of words are exactly the subsequence of the results whose raw
\* confidence is strictly greater than 0.3, in the input's order; at every
\* point of the loop this holds of the results read so far.
C2_KeptIsFilteredSubsequence ==
    /\ aggPc = "done" =>
           [i \in 1..Len(response.words) |-> response.words[i].text]
               = C2_ExpectedTexts
    /\ aggPc = "loop" =>
           LET seen == SubSeq(results, 1, idx - 1)
               kept == SelectSeq(seen, LAMBDA x : x.confidence > ConfThreshold)
           IN  [i \in 1..Len(extracted) |-> extracted[i].text]
                   = [i \in 1..Len(kept) |-> kept[i].text]

\* A result at exactly 0.3 was dropped and a later one above 0.3 was kept.
C2_Witness ==
    /\ aggPc = "done"
    /\ Len(results) = 2
    /\ results[1].confidence = ConfThreshold
    /\ results[2].confidence > ConfThreshold
    /\ results[1].text # results[2].text
    /\ Len(response.words) = 1

\* Position in text at which the k-th kept text starts.
RECURSIVE C3_Offset(_)
C3_Offset(k) ==
    IF k = 1 THEN 1
    ELSE C3_Offset(k - 1) + Len(response.words[k - 1].text) + 1

\* C3: text is the kept texts in kept order, each one followed by exactly one
\* space except the last: with n >= 1 kept results its length is the sum of
\* their lengths plus n - 1, an empty kept text included; with none it is empty.
C3_TextIsSpaceJoined ==
    aggPc = "done" =>
        LET n == Len(response.words)
            t == response.text
        IN  /\ n = 0 => t = <<>>
            /\ n >= 1 =>
                 /\ Len(t) = C3_Offset(n) + Len(response.words[n].text) - 1
                 /\ \A k \in 1..n :
                      LET w == response.words[k].text
                          o == C3_Offset(k)
                      IN  /\ SubSeq(t, o, o + Len(w) - 1) = w
                          /\ k < n => t[o + Len(w)] = " "

\* Two kept results, the first with the empty text: text starts with a space.
C3_Witness ==
    /\ aggPc = "done"
    /\ Len(response.words) = 2
    /\ response.words[1].text = <<>>
    /\ response.words[2].text # <<>>
    /\ response.text[1] = " "

\* ---------------------------------------------------------------- SpecPre

\* n / d rounded to the nearest integer, a tie to the even neighbour.
C4_Nearest ==
    LET n == input.height * max_width
        d == input.width
        q == n \div d
        r2 == 2 * (n % d)
    IN  IF r2 < d THEN q
        ELSE IF r2 > d THEN q + 1
        ELSE IF q % 2 = 0 THEN q ELSE q + 1

\* C4: for an image wider than max_width, the resize does not fail and gives
\* width = max_width and height = round(height * max_width / width).
C4_ResizeRoundsToNearest ==
    (prePc \notin {"off", "convert", "resize"} /\ input.width > max_width) =>
        /\ prePc # "failed"
        /\ image.width = max_width
        /\ image.height = C4_Nearest

\* C7: for an image no wider than max_width (2000 included), no stage of
\* preprocess_image changes the width or the height, and none fails.
C7_SmallImageKeepsSize ==
    (prePc # "off" /\ input.width <= max_width) =>
        /\ prePc # "failed"
        /\ image.width = input.width
        /\ image.height = input.height

\* An image of width exactly max_width, not RGB, has passed every stage.
C7_Witness ==
    /\ prePc = "done"
    /\ input.width = max_width
    /\ input.mode # "RGB"
    /\ input.height > 1
    /\ image.channels = 3

\* ---------------------------------------------------------------- SpecBin

\* C5, as stated: a pixel >= 150 becomes 255, a pixel below 150 becomes 0.
C5_AtLeastThresholdIsWhite ==
    binPc \in {"binary", "again"} =>
        \A i \in Pixels :
            binary[i] = IF gray[i] >= BinThresh THEN BinMaxVal ELSE 0

\* C5, amended: a pixel strictly greater than 150 becomes 255, a pixel less
\* than or equal to 150 becomes 0; a pixel of exactly 150 becomes 0.
C5_AboveThresholdIsWhite ==
    binPc \in {"binary", "again"} =>
        \A i \in Pixels :
            /\ gray[i] > BinThresh => binary[i] = BinMaxVal
            /\ gray[i] <= BinThresh => binary[i] = 0

\* An image holding 149, 150 and 151 has been binarized.
C5_Witness ==
    /\ binPc = "binary"
    /\ \E i, j, k \in Pixels :
           /\ gray[i] = BinThresh - 1
           /\ gray[j] = BinThresh
           /\ gray[k] = BinThresh + 1

\* C8: binarizing a binarized image gives the same image.
C8_BinarizeIdempotent == binPc = "again" => binary2 = binary

\* A binarized image with both a black and a white pixel was binarized again.
C8_Witness ==
    /\ binPc = "again"
    /\ \E i, j \in Pixels : binary[i] = 0 /\ binary[j] = BinMaxVal

\* ------------------------------------------------------------------- Spec

\* Some /ocr coroutine can take a step.
OcrStep ==
    \E r \in Reqs :
        \/ BeginInline(r) \/ BeginSuspend(r) \/ ReadComplete(r) \/ Resume(r)
        \/ CheckEmpty(r) \/ Decode(r) \/ Preprocess(r) \/ Recognize(r)
        \/ Aggregate(r)

\* C6: a request never ends in an uncaught failure and returns at most one
\* response, exactly one when it ends; while a request is unanswered some
\* request can step.  A raised failure gives 500 with its message; otherwise an
\* empty upload gives 400 "Empty file" with no stage run and no readtext call;
\* otherwise 200.  A 200 is returned only after all four stages completed.
C6_OneResponsePerRequest ==
    /\ \A r \in Reqs :
        /\ pc[r] # "crashed"
        /\ Len(responses[r]) <= 1
        /\ (pc[r] = "done") <=> (Len(responses[r]) = 1)
        /\ pc[r] = "done" =>
             LET resp == responses[r][1]
             IN  /\ raised[r] # "" =>
                        resp = [status |-> 500, success |-> FALSE,
                                error |-> raised[r]]
                 /\ (raised[r] = "" /\ contents[r] = "empty") =>
                        /\ resp = [status |-> 400, success |-> FALSE,
                                   error |-> "Empty file"]
                        /\ stages[r] = {}
                        /\ calls[r] = 0
                 /\ (raised[r] = "" /\ contents[r] # "empty") =>
                        resp.status = 200 /\ resp.success
                 /\ resp.status = 200 => stages[r] = PipelineStages
    /\ (serving /\ \E r \in Reqs : pc[r] # "done") => ENABLED OcrStep

\* One request answered 400, another answered 500 for an undecodable upload.
C6_Witness ==
    \E r, q \in Reqs :
        /\ pc[r] = "done" /\ responses[r][1].status = 400
        /\ pc[q] = "done" /\ responses[q][1].status = 500
        /\ contents[q] = "garbage" /\ stages[q] = {}

\* C9: the reader is built exactly once, before any request is handled, and
\* is never rebound: every readtext call is on that first instance, and a
\* request makes at most one readtext call.
C9_ReaderBuiltOnce ==
    /\ readerInits <= 1
    /\ reader = readerInits
    /\ (probes > 0 \/ \E r \in Reqs : pc[r] # "new") => readerInits = 1
    /\ \A r \in Reqs :
        /\ calls[r] <= 1
        /\ calls[r] = 1 => usedReader[r] = 1
        /\ pc[r] \in {"new", "await_read", "check", "decode", "preprocess",
                      "recognize"} => calls[r] = 0

\* Every request has called readtext, and probes were answered in between.
C9_Witness ==
    /\ \A r \in Reqs : calls[r] = 1 /\ pc[r] = "done"
    /\ probes = MaxProbes
    /\ lastProbe = [status |-> "ok", reader_ready |-> TRUE]

\* C10: a request past the await of file.read() and not yet answered is the
\* only coroutine executing, so no two requests are in preprocess_image or
\* reader.readtext at the same time.
C10_RecognitionSerialized ==
    /\ \A r \in Reqs :
        pc[r] \in {"check", "decode", "preprocess", "recognize", "aggregate"}
            => running = {r}
    /\ Cardinality({r \in Reqs : pc[r] \in {"preprocess", "recognize"}}) <= 1

\* One request is inside readtext while another, whose read has finished,
\* waits to be resumed.
C10_Witness ==
    \E r, q \in Reqs :
        /\ pc[r] = "recognize"
        /\ pc[q] = "await_read" /\ io[q] = "ok"

====
